---- MODULE Spec2Model ----
(***************************************************************************)
(* Model of the QR generator / QR reader utilities: the Wi-Fi payload      *)
(* codec (generateWiFiPayload, escapeWiFiString, validateWiFiConfig), the  *)
(* payload classifier (parseQRData), the generator component's debounced   *)
(* generation and the reader component's camera scanning.                  *)
(*                                                                         *)
(* A JavaScript string is a sequence of one-character strings, so that     *)
(* escaping, prefix tests and regular expressions are computed character   *)
(* by character.  An optional value is a sequence of length 0 or 1.        *)
(***************************************************************************)
EXTENDS Naturals, Sequences, FiniteSets, TLC

VARIABLES
    config,      \* the WiFiConfig held by the generator form
    payload,     \* optional: the string returned by generateWiFiPayload(config)
    validation,  \* optional: the value returned by validateWiFiConfig(config)
    data,        \* the decoded string handed to parseQRData
    result,      \* optional: the QRResult returned by parseQRData(data)
    str,         \* the argument of escapeWiFiString
    escaped,     \* optional: the string returned by escapeWiFiString(str)
    \* the QRGenerator component (QRState and its pending work)
    inputType,   \* "link", "text" or "wifi"
    link,        \* the link field
    text,        \* the text field
    options,     \* the QRCodeOptions
    qrCodePNG,   \* optional: the stored PNG
    qrCodeSVG,   \* optional: the stored SVG
    isGenerating,
    timers,      \* pending setTimeout(generateQRCode, 300) calls, each with the
                 \* inputs its generateQRCode closure captured
    inflight,    \* generation calls awaiting the QR image library
    version,     \* number of input changes so far
    calls,       \* number of generation calls started so far
    runs,        \* number of runs of generateQRCode so far
    lastRun,     \* optional: what the latest run of generateQRCode did
    consoleErrors, \* number of console.error reports of failed generations
    \* the QRReader component's camera scanning (data and result above are its
    \* decoded string and its result state)
    isScanning,
    error,       \* optional: the error message shown
    selectedDevice,
    startSeesScanning, \* the isScanning that the memoized startScanning closes over
    streamRef,   \* optional: streamRef.current
    animationRef, \* optional: animationRef.current
    srcObject,   \* optional: the video element's srcObject
    liveStreams, \* camera streams whose tracks have not been stopped
    starting,    \* invocations of startScanning waiting at an await
    frames,      \* pending requestAnimationFrame(scanFrame) callbacks
    mounted,     \* the component is mounted (videoRef.current, canvasRef.current set)
    stopped,     \* stopScanning has run since the last request to start
    starts,      \* number of startScanning invocations so far
    frameCount   \* number of animation frames requested so far

utilVars == <<payload, validation, data, result, str, escaped>>

genVars == <<inputType, link, text, options, qrCodePNG, qrCodeSVG, isGenerating,
             timers, inflight, version, calls, runs, lastRun, consoleErrors>>

scanVars == <<isScanning, error, selectedDevice, startSeesScanning, streamRef,
              animationRef, srcObject, liveStreams, starting, frames, mounted,
              stopped, starts, frameCount>>

vars == <<config, payload, validation, data, result, str, escaped,
          inputType, link, text, options, qrCodePNG, qrCodeSVG, isGenerating,
          timers, inflight, version, calls, runs, lastRun, consoleErrors,
          isScanning, error, selectedDevice, startSeesScanning, streamRef,
          animationRef, srcObject, liveStreams, starting, frames, mounted,
          stopped, starts, frameCount>>

None == <<>>
Some(x) == <<x>>

-----------------------------------------------------------------------------
(* Bounds of the input families.                                           *)

MaxFieldLen == 2     \* longest ssid / password of the codec family
MaxEscapeLen == 4    \* longest argument of escapeWiFiString
LenSlack == 2        \* how far past the length limits the validator inputs go
MaxTokens == 2       \* tokens concatenated into a classifier input

-----------------------------------------------------------------------------
(* Characters and string helpers.                                          *)

BS == "\\"
DQ == "\""

WhiteSpace == {" ", "\t", "\n", "\r"}

Digits == {"0", "1", "2", "3", "4", "5", "6", "7", "8", "9"}

UpperCase == <<"A","B","C","D","E","F","G","H","I","J","K","L","M",
               "N","O","P","Q","R","S","T","U","V","W","X","Y","Z">>
LowerCase == <<"a","b","c","d","e","f","g","h","i","j","k","l","m",
               "n","o","p","q","r","s","t","u","v","w","x","y","z">>

ToLowerChar(c) ==
    IF \E i \in 1..Len(UpperCase) : UpperCase[i] = c
    THEN LowerCase[CHOOSE i \in 1..Len(UpperCase) : UpperCase[i] = c]
    ELSE c

ToLower(s) == [i \in 1..Len(s) |-> ToLowerChar(s[i])]

StartsWith(s, p) == Len(s) >= Len(p) /\ SubSeq(s, 1, Len(p)) = p

\* s.substring occurrence test: the literal lit sits in s at position i
LitAt(s, i, lit) ==
    /\ i >= 1
    /\ i + Len(lit) - 1 <= Len(s)
    /\ SubSeq(s, i, i + Len(lit) - 1) = lit

\* String.prototype.trim: drop leading and trailing whitespace
RECURSIVE TrimLeft(_)
TrimLeft(s) ==
    IF s # <<>> /\ Head(s) \in WhiteSpace THEN TrimLeft(Tail(s)) ELSE s

RECURSIVE TrimRight(_)
TrimRight(s) ==
    IF s # <<>> /\ s[Len(s)] \in WhiteSpace
    THEN TrimRight(SubSeq(s, 1, Len(s) - 1))
    ELSE s

Trim(s) == TrimRight(TrimLeft(s))

\* String.prototype.replace with a one-character global pattern: every
\* occurrence of ch in s is replaced by rep; the replacement is not rescanned
RECURSIVE ReplaceAll(_, _, _)
ReplaceAll(s, ch, rep) ==
    IF s = <<>> THEN <<>>
    ELSE (IF Head(s) = ch THEN rep ELSE <<Head(s)>>) \o ReplaceAll(Tail(s), ch, rep)

-----------------------------------------------------------------------------
(* Wi-Fi payload codec (utils/wifi.ts).                                    *)

WPA == <<"W","P","A">>
WEP == <<"W","E","P">>
nopass == <<"n","o","p","a","s","s">>
SecurityTypes == {WPA, WEP, nopass}

TrueText == <<"t","r","u","e">>
FalseText == <<"f","a","l","s","e">>

escapeWiFiStringNoEscape(s) == s

escapeWiFiStringBackslashLast(s) ==
    ReplaceAll(
      ReplaceAll(
        ReplaceAll(
          ReplaceAll(
            ReplaceAll(s, ",", <<BS, ",">>),
            ";", <<BS, ";">>),
          DQ, <<BS, DQ>>),
        ":", <<BS, ":">>),
      BS, <<BS, BS>>)

escapeWiFiString(s) ==
    ReplaceAll(
      ReplaceAll(
        ReplaceAll(
          ReplaceAll(
            ReplaceAll(s, BS, <<BS, BS>>),
            ",", <<BS, ",">>),
          ";", <<BS, ";">>),
        DQ, <<BS, DQ>>),
      ":", <<BS, ":">>)

generateWiFiPayloadOneSemicolon(c) ==
    <<"W","I","F","I",":","T",":">> \o c.security
      \o <<";","S",":">> \o escapeWiFiString(c.ssid)
      \o <<";","P",":">> \o escapeWiFiString(c.password)
      \o <<";","H",":">> \o (IF c.hidden THEN TrueText ELSE FalseText)
      \o <<";">>

generateWiFiPayload(c) ==
    <<"W","I","F","I",":","T",":">> \o c.security
      \o <<";","S",":">> \o escapeWiFiString(c.ssid)
      \o <<";","P",":">> \o escapeWiFiString(c.password)
      \o <<";","H",":">> \o (IF c.hidden THEN TrueText ELSE FalseText)
      \o <<";",";">>

SSID_MAX == 32
PASSWORD_MAX == 63

ErrSsidRequired == "SSID is required"
ErrSsidTooLong == "SSID cannot exceed 32 characters"
ErrPasswordRequired == "Password is required for secured networks"
ErrPasswordTooLong == "Password cannot exceed 63 characters"

validateWiFiConfigFirstErrorOnly(c) ==
    LET errors ==
          IF Trim(c.ssid) = <<>> THEN <<ErrSsidRequired>>
          ELSE IF Len(c.ssid) > SSID_MAX THEN <<ErrSsidTooLong>>
          ELSE IF c.security # nopass /\ c.password = <<>> THEN <<ErrPasswordRequired>>
          ELSE IF c.password # <<>> /\ Len(c.password) > PASSWORD_MAX
               THEN <<ErrPasswordTooLong>>
          ELSE <<>>
    IN  [isValid |-> Len(errors) = 0, errors |-> errors]

validateWiFiConfigAlwaysPassword(c) ==
    LET e0 == <<>>
        e1 == IF Trim(c.ssid) = <<>> THEN Append(e0, ErrSsidRequired) ELSE e0
        e2 == IF Len(c.ssid) > SSID_MAX THEN Append(e1, ErrSsidTooLong) ELSE e1
        e3 == IF c.password = <<>> THEN Append(e2, ErrPasswordRequired) ELSE e2
        e4 == IF c.password # <<>> /\ Len(c.password) > PASSWORD_MAX
              THEN Append(e3, ErrPasswordTooLong) ELSE e3
    IN  [isValid |-> Len(e4) = 0, errors |-> e4]

validateWiFiConfig(c) ==
    LET e0 == <<>>
        e1 == IF Trim(c.ssid) = <<>> THEN Append(e0, ErrSsidRequired) ELSE e0
        e2 == IF Len(c.ssid) > SSID_MAX THEN Append(e1, ErrSsidTooLong) ELSE e1
        e3 == IF c.security # nopass /\ c.password = <<>>
              THEN Append(e2, ErrPasswordRequired) ELSE e2
        e4 == IF c.password # <<>> /\ Len(c.password) > PASSWORD_MAX
              THEN Append(e3, ErrPasswordTooLong) ELSE e3
    IN  [isValid |-> Len(e4) = 0, errors |-> e4]

-----------------------------------------------------------------------------
(* Payload classifier (components/QRReader.tsx, parseQRData).              *)

\* /^https?:\/\//i  or  /^www\./i
UrlTest(d) ==
    \/ StartsWith(ToLower(d), <<"h","t","t","p",":","/","/">>)
    \/ StartsWith(ToLower(d), <<"h","t","t","p","s",":","/","/">>)
    \/ StartsWith(ToLower(d), <<"w","w","w",".">>)

\* position of the first ";" of s at or after from, 0 when there is none
NextSemi(s, from) ==
    IF \E j \in from..Len(s) : s[j] = ";"
    THEN CHOOSE j \in from..Len(s) :
            s[j] = ";" /\ \A k \in from..(j - 1) : s[k] # ";"
    ELSE 0

\* /WIFI:T:([^;]*);S:([^;]*);P:([^;]*);H:([^;]*);/ tried at position i: each
\* group runs to the next ";" (it cannot contain one and a ";" must follow)
WifiMatchAt(s, i) ==
    LET p1 == i + 7
        e1 == NextSemi(s, p1)
        p2 == e1 + 3
        e2 == NextSemi(s, p2)
        p3 == e2 + 3
        e3 == NextSemi(s, p3)
        p4 == e3 + 3
        e4 == NextSemi(s, p4)
    IN  IF /\ LitAt(s, i, <<"W","I","F","I",":","T",":">>)
           /\ e1 # 0 /\ LitAt(s, e1, <<";","S",":">>)
           /\ e2 # 0 /\ LitAt(s, e2, <<";","P",":">>)
           /\ e3 # 0 /\ LitAt(s, e3, <<";","H",":">>)
           /\ e4 # 0
        THEN Some(<<SubSeq(s, p1, e1 - 1), SubSeq(s, p2, e2 - 1),
                    SubSeq(s, p3, e3 - 1), SubSeq(s, p4, e4 - 1)>>)
        ELSE None

\* data.match(...) without anchors: the leftmost position that matches
wifiMatch(s) ==
    IF \E i \in 1..Len(s) : WifiMatchAt(s, i) # None
    THEN WifiMatchAt(s, CHOOSE i \in 1..Len(s) :
                          /\ WifiMatchAt(s, i) # None
                          /\ \A k \in 1..(i - 1) : WifiMatchAt(s, k) = None)
    ELSE None

WifiTest(d) == StartsWith(d, <<"W","I","F","I",":">>) /\ wifiMatch(d) # None

\* [^\s@]+
NonSpaceNonAt(t) ==
    Len(t) > 0 /\ \A i \in 1..Len(t) : t[i] \notin WhiteSpace /\ t[i] # "@"

\* /^[^\s@]+@[^\s@]+\.[^\s@]+$/
EmailShape(d) ==
    \E i \in 1..Len(d) : \E j \in (i + 1)..Len(d) :
        /\ d[i] = "@"
        /\ d[j] = "."
        /\ NonSpaceNonAt(SubSeq(d, 1, i - 1))
        /\ NonSpaceNonAt(SubSeq(d, i + 1, j - 1))
        /\ NonSpaceNonAt(SubSeq(d, j + 1, Len(d)))

MailtoTest(d) == StartsWith(d, <<"m","a","i","l","t","o",":">>)

EmailTest(d) == MailtoTest(d) \/ EmailShape(d)

\* [0-9\-\(\)\s]+
PhoneChars(t) ==
    Len(t) > 0 /\ \A i \in 1..Len(t) : t[i] \in Digits \cup {"-", "(", ")"} \cup WhiteSpace

\* /[\+]?[0-9\-\(\)\s]+/ , the phone pattern with its anchors left out
PhoneShapeUnanchored(d) ==
    \E i \in 1..Len(d) : \E j \in i..Len(d) : PhoneChars(SubSeq(d, i, j))

\* /^[\+0-9\-\(\)\s]+$/ , the "+" taken into the character class
PhoneShapePlusAnywhere(d) ==
    Len(d) > 0 /\ \A i \in 1..Len(d) :
        d[i] \in Digits \cup {"+", "-", "(", ")"} \cup WhiteSpace

\* /^[\+]?[0-9\-\(\)\s]+$/
PhoneShape(d) ==
    \E k \in {0, 1} :
        /\ k = 1 => (Len(d) >= 1 /\ d[1] = "+")
        /\ PhoneChars(SubSeq(d, k + 1, Len(d)))

PhoneTest(d) == StartsWith(d, <<"t","e","l",":">>) \/ PhoneShape(d)

SmsTestSmsOnly(d) == StartsWith(d, <<"s","m","s",":">>)

SmsTest(d) ==
    StartsWith(d, <<"s","m","s",":">>) \/ StartsWith(d, <<"s","m","s","t","o",":">>)

GeoTest(d) == StartsWith(d, <<"g","e","o",":">>)

VCardTest(d) == StartsWith(d, <<"B","E","G","I","N",":","V","C","A","R","D">>)

EventTest(d) == StartsWith(d, <<"B","E","G","I","N",":","V","E","V","E","N","T">>)

\* the WiFiData without the "nopass" default of the security
WiFiDataOfNoDefault(m) ==
    [security |-> m[1],
     ssid     |-> m[2],
     password |-> m[3],
     hidden   |-> (m[4] = TrueText)]

\* the WiFiData built from the capture groups of a match m
WiFiDataOf(m) ==
    [security |-> IF m[1] # <<>> THEN m[1] ELSE nopass,
     ssid     |-> m[2],
     password |-> m[3],
     hidden   |-> (m[4] = TrueText)]

parseQRDataEmailFirst(d) ==
    IF EmailTest(d) THEN [data |-> d, type |-> "email"]
    ELSE IF UrlTest(d) THEN [data |-> d, type |-> "url"]
    ELSE IF WifiTest(d)
         THEN [data |-> d, type |-> "wifi", parsed |-> WiFiDataOf(wifiMatch(d)[1])]
    ELSE IF PhoneTest(d) THEN [data |-> d, type |-> "phone"]
    ELSE IF SmsTest(d) THEN [data |-> d, type |-> "sms"]
    ELSE IF GeoTest(d) THEN [data |-> d, type |-> "geo"]
    ELSE IF VCardTest(d) THEN [data |-> d, type |-> "vcard"]
    ELSE IF EventTest(d) THEN [data |-> d, type |-> "event"]
    ELSE [data |-> d, type |-> "text"]

parseQRDataPrefixOnly(d) ==
    IF UrlTest(d) THEN [data |-> d, type |-> "url"]
    ELSE IF StartsWith(d, <<"W","I","F","I",":">>)
         THEN [data |-> d, type |-> "wifi",
               parsed |-> IF wifiMatch(d) # None THEN WiFiDataOf(wifiMatch(d)[1])
                          ELSE WiFiDataOf(<<<<>>, <<>>, <<>>, <<>>>>)]
    ELSE IF EmailTest(d) THEN [data |-> d, type |-> "email"]
    ELSE IF PhoneTest(d) THEN [data |-> d, type |-> "phone"]
    ELSE IF SmsTest(d) THEN [data |-> d, type |-> "sms"]
    ELSE IF GeoTest(d) THEN [data |-> d, type |-> "geo"]
    ELSE IF VCardTest(d) THEN [data |-> d, type |-> "vcard"]
    ELSE IF EventTest(d) THEN [data |-> d, type |-> "event"]
    ELSE [data |-> d, type |-> "text"]

parseQRDataUnknownDefault(d) ==
    IF UrlTest(d) THEN [data |-> d, type |-> "url"]
    ELSE IF WifiTest(d)
         THEN [data |-> d, type |-> "wifi", parsed |-> WiFiDataOf(wifiMatch(d)[1])]
    ELSE IF EmailTest(d) THEN [data |-> d, type |-> "email"]
    ELSE IF PhoneTest(d) THEN [data |-> d, type |-> "phone"]
    ELSE IF SmsTest(d) THEN [data |-> d, type |-> "sms"]
    ELSE IF GeoTest(d) THEN [data |-> d, type |-> "geo"]
    ELSE IF VCardTest(d) THEN [data |-> d, type |-> "vcard"]
    ELSE IF EventTest(d) THEN [data |-> d, type |-> "event"]
    ELSE [data |-> d, type |-> "unknown"]

parseQRDataNoParsed(d) ==
    IF UrlTest(d) THEN [data |-> d, type |-> "url"]
    ELSE IF WifiTest(d)
         THEN [data |-> d, type |-> "wifi"]
    ELSE IF EmailTest(d) THEN [data |-> d, type |-> "email"]
    ELSE IF PhoneTest(d) THEN [data |-> d, type |-> "phone"]
    ELSE IF SmsTest(d) THEN [data |-> d, type |-> "sms"]
    ELSE IF GeoTest(d) THEN [data |-> d, type |-> "geo"]
    ELSE IF VCardTest(d) THEN [data |-> d, type |-> "vcard"]
    ELSE IF EventTest(d) THEN [data |-> d, type |-> "event"]
    ELSE [data |-> d, type |-> "text"]

parseQRDataPhoneFirst(d) ==
    IF UrlTest(d) THEN [data |-> d, type |-> "url"]
    ELSE IF WifiTest(d)
         THEN [data |-> d, type |-> "wifi", parsed |-> WiFiDataOf(wifiMatch(d)[1])]
    ELSE IF PhoneTest(d) THEN [data |-> d, type |-> "phone"]
    ELSE IF EmailTest(d) THEN [data |-> d, type |-> "email"]
    ELSE IF SmsTest(d) THEN [data |-> d, type |-> "sms"]
    ELSE IF GeoTest(d) THEN [data |-> d, type |-> "geo"]
    ELSE IF VCardTest(d) THEN [data |-> d, type |-> "vcard"]
    ELSE IF EventTest(d) THEN [data |-> d, type |-> "event"]
    ELSE [data |-> d, type |-> "text"]

parseQRData(d) ==
    IF UrlTest(d) THEN [data |-> d, type |-> "url"]
    ELSE IF WifiTest(d)
         THEN [data |-> d, type |-> "wifi", parsed |-> WiFiDataOf(wifiMatch(d)[1])]
    ELSE IF EmailTest(d) THEN [data |-> d, type |-> "email"]
    ELSE IF PhoneTest(d) THEN [data |-> d, type |-> "phone"]
    ELSE IF SmsTest(d) THEN [data |-> d, type |-> "sms"]
    ELSE IF GeoTest(d) THEN [data |-> d, type |-> "geo"]
    ELSE IF VCardTest(d) THEN [data |-> d, type |-> "vcard"]
    ELSE IF EventTest(d) THEN [data |-> d, type |-> "event"]
    ELSE [data |-> d, type |-> "text"]

-----------------------------------------------------------------------------
(* Input families.                                                         *)

\* every string over the alphabet A of length at most n
Strings(A, n) == UNION {[1..k -> A] : k \in 0..n}

\* the string made of n copies of the character c
Rep(c, n) == [i \in 1..n |-> c]

RECURSIVE Concat(_)
Concat(ss) == IF ss = <<>> THEN <<>> ELSE Head(ss) \o Concat(Tail(ss))

\* the generator's initial Wi-Fi form
DefaultConfig ==
    [ssid |-> <<>>, password |-> <<>>, security |-> WPA, hidden |-> FALSE]

ExampleConfig ==
    [ssid |-> <<"a", ";", "b">>, password |-> <<"p", BS, "q">>,
     security |-> WPA, hidden |-> TRUE]

CodecChars == {"a", BS, ";", ":"}

CodecConfigs ==
    {[ssid |-> s, password |-> p, security |-> t, hidden |-> h] :
        s \in Strings(CodecChars, MaxFieldLen),
        p \in Strings(CodecChars, MaxFieldLen),
        t \in SecurityTypes, h \in BOOLEAN}
    \cup {ExampleConfig}

EscapedChars == {BS, ",", ";", DQ, ":"}

EscapeInputs == Strings(EscapedChars \cup {"a", " "}, MaxEscapeLen)

ValidateSsids ==
    {Rep("x", n) : n \in 0..(SSID_MAX + LenSlack)}
    \cup {Rep(" ", n) : n \in 1..(SSID_MAX + LenSlack)}
    \cup {<<" ", "x">>, <<"x", " ">>, <<"\t", "\n">>, <<" ", "x", " ">>}

ValidatePasswords ==
    {Rep("p", n) : n \in 0..(PASSWORD_MAX + LenSlack)}
    \cup {<<"o", "k">>, <<" ">>}

ValidateConfigs ==
    {[ssid |-> s, password |-> p, security |-> t, hidden |-> h] :
        s \in ValidateSsids, p \in ValidatePasswords,
        t \in SecurityTypes, h \in BOOLEAN}

Tokens ==
    { <<"h","t","t","p",":","/","/">>,
      <<"H","T","T","P","S",":","/","/">>,
      <<"w","w","w",".">>,
      <<"W","I","F","I",":">>,
      <<"W","I","F","I",":","T",":","W","P","A",";","S",":","n",";","P",":","k",";","H",":","t","r","u","e",";">>,
      <<"T",":",";","S",":",";","P",":",";","H",":",";">>,
      <<"W","I","F","I",":","T",":","n","o","p","a","s","s",";","S",":","M","y","N","e","t",";","P",":",";","H",":","f","a","l","s","e",";",";">>,
      <<"\n","F","N",":","J","a","n","e">>,
      <<"m","a","i","l","t","o",":">>,
      <<"t","e","l",":">>,
      <<"s","m","s",":">>,
      <<"s","m","s","t","o",":">>,
      <<"g","e","o",":">>,
      <<"B","E","G","I","N",":","V","C","A","R","D">>,
      <<"B","E","G","I","N",":","V","E","V","E","N","T">>,
      <<"a","@","b",".","c">>,
      <<"a">>, <<"@">>, <<".">>, <<" ">>, <<"\n">>, <<";">>,
      <<"1">>, <<"+">>, <<"(","2",")","-","3">> }

RawInputs == UNION {{Concat(f) : f \in [1..n -> Tokens]} : n \in 0..MaxTokens}

-----------------------------------------------------------------------------
(* QR generator component (QRGenerator, utils/qrcode.ts).                  *)

QR_MAX_LEN == 2000

ErrContentEmpty == "Content cannot be empty"
ErrContentTooLong == "Content is too long (maximum 2000 characters)"

validateQRContentNoLength(content) ==
    LET e0 == <<>>
        e1 == IF Trim(content) = <<>> THEN Append(e0, ErrContentEmpty) ELSE e0
    IN  [isValid |-> Len(e1) = 0, errors |-> e1]

validateQRContentNoTrim(content) ==
    LET e0 == <<>>
        e1 == IF content = <<>> THEN Append(e0, ErrContentEmpty) ELSE e0
        e2 == IF Len(content) > QR_MAX_LEN THEN Append(e1, ErrContentTooLong) ELSE e1
    IN  [isValid |-> Len(e2) = 0, errors |-> e2]

validateQRContent(content) ==
    LET e0 == <<>>
        e1 == IF Trim(content) = <<>> THEN Append(e0, ErrContentEmpty) ELSE e0
        e2 == IF Len(content) > QR_MAX_LEN THEN Append(e1, ErrContentTooLong) ELSE e1
    IN  [isValid |-> Len(e2) = 0, errors |-> e2]

HttpPrefix == <<"h","t","t","p",":","/","/">>

\* position of the first ch in s, Len(s) + 1 when there is none
FirstIndex(s, ch) ==
    IF \E j \in 1..Len(s) : s[j] = ch
    THEN CHOOSE j \in 1..Len(s) : s[j] = ch /\ \A k \in 1..(j - 1) : s[k] # ch
    ELSE Len(s) + 1

\* whether the platform's URL parser accepts s, for the http links of this
\* model: surrounding blanks are dropped, the scheme is http://, the host up
\* to the first ":" or "/" is non-empty and has no blank, the port has digits only
URLParses(s) ==
    LET t == Trim(s)
        rest == SubSeq(t, Len(HttpPrefix) + 1, Len(t))
        authority == SubSeq(rest, 1, FirstIndex(rest, "/") - 1)
        host == SubSeq(authority, 1, FirstIndex(authority, ":") - 1)
        port == SubSeq(authority, FirstIndex(authority, ":") + 1, Len(authority))
    IN  /\ StartsWith(ToLower(t), HttpPrefix)
        /\ host # <<>>
        /\ \A i \in 1..Len(host) : host[i] \notin WhiteSpace
        /\ \A i \in 1..Len(port) : port[i] \in Digits

\* new URL(s): returns or throws a TypeError
NewURL(s) == IF URLParses(s) THEN "ok" ELSE "TypeError"

validateURL(url) ==
    IF NewURL(url) = "ok" THEN TRUE
    ELSE IF NewURL(HttpPrefix \o url) = "ok" THEN TRUE
    ELSE FALSE

normalizeURL(url) ==
    IF NewURL(url) = "ok" THEN url ELSE HttpPrefix \o url

\* getCurrentContent over the inputs st a render has captured
getCurrentContent(st) ==
    CASE st.inputType = "link" ->
           (IF st.link # <<>> THEN normalizeURL(st.link) ELSE <<>>)
      [] st.inputType = "text" -> st.text
      [] st.inputType = "wifi" -> generateWiFiPayload(st.wifi)
      [] OTHER -> <<>>

\* what the current render's generateQRCode / getCurrentContent closures see
CurrentInputs ==
    [inputType |-> inputType, link |-> link, text |-> text,
     wifi |-> config, options |-> options]

\* the images the QR library produces for a call: a function of text and options
PngOf(c) == [kind |-> "png", content |-> c.content, options |-> c.options]
SvgOf(c) == [kind |-> "svg", content |-> c.content, options |-> c.options]

\* the auto-generate effect after a render with a new generateQRCode: the
\* cleanup clears the timeout of the previous effect, then a new one is set
RescheduleNoClear(ts, oldVersion, newTimer) == ts \cup {newTimer}

Reschedule(ts, oldVersion, newTimer) ==
    (ts \ {t \in ts : t.version = oldVersion}) \cup {newTimer}

\* the preview panel
Preview ==
    IF isGenerating THEN "spinner"
    ELSE IF qrCodePNG # None THEN "image"
    ELSE IF getCurrentContent(CurrentInputs) # <<>> THEN "generating text"
    ELSE "enter content"

MaxChanges == 3      \* input changes in one behaviour

InputTypes == {"link", "text", "wifi"}

GenLinks == {<<>>, <<"a",".","b">>, HttpPrefix \o <<"a",".","b">>}

GenTexts ==
    {<<>>, <<"h","i">>, <<" ">>, Rep("x", QR_MAX_LEN), Rep("x", QR_MAX_LEN + 1)}

GenWifis ==
    {[ssid |-> s, password |-> p, security |-> t, hidden |-> FALSE] :
        s \in {<<>>, <<"n">>}, p \in {<<>>, <<"k">>}, t \in {WPA, nopass}}

GenOptions == {"M", "H"}

\* the state the component is constructed with, its effect not yet run
GeneratorUnused ==
    /\ inputType = "link" /\ link = <<>> /\ text = <<>> /\ options = "M"
    /\ qrCodePNG = None /\ qrCodeSVG = None /\ isGenerating = FALSE
    /\ timers = {} /\ inflight = {}
    /\ version = 0 /\ calls = 0 /\ runs = 0 /\ lastRun = None /\ consoleErrors = 0

\* a render after an input change: version counts it and the effect runs
AfterInputChange ==
    /\ version' = version + 1
    /\ timers' = Reschedule(timers, version,
                            [version |-> version + 1, inputs |-> CurrentInputs'])
    /\ UNCHANGED <<qrCodePNG, qrCodeSVG, isGenerating, inflight, calls,
                   runs, lastRun, consoleErrors>>
    /\ UNCHANGED utilVars
    /\ UNCHANGED scanVars

UpdateInputType(t) ==
    /\ version < MaxChanges
    /\ t # inputType
    /\ inputType' = t
    /\ UNCHANGED <<link, text, config, options>>
    /\ AfterInputChange

UpdateLink(l) ==
    /\ version < MaxChanges
    /\ inputType = "link" /\ l # link
    /\ link' = l
    /\ UNCHANGED <<inputType, text, config, options>>
    /\ AfterInputChange

UpdateText(x) ==
    /\ version < MaxChanges
    /\ inputType = "text" /\ x # text
    /\ text' = x
    /\ UNCHANGED <<inputType, link, config, options>>
    /\ AfterInputChange

\* updateWiFi with one field of the form
UpdateWiFi(c) ==
    /\ version < MaxChanges
    /\ inputType = "wifi"
    /\ Cardinality({f \in {"ssid", "password", "security"} : c[f] # config[f]}) = 1
    /\ config' = c
    /\ UNCHANGED <<inputType, link, text, options>>
    /\ AfterInputChange

UpdateOptions(o) ==
    /\ version < MaxChanges
    /\ o # options
    /\ options' = o
    /\ UNCHANGED <<inputType, link, text, config>>
    /\ AfterInputChange

\* a pending timeout fires and runs the generateQRCode it was given, up to
\* the calls into the QR library
GenerateQRCode(t) ==
    LET st == t.inputs
        content == getCurrentContent(st)
        cv == validateQRContent(content)
        wv == validateWiFiConfig(st.wifi)
        outcome ==
            IF content = <<>> THEN "cleared"
            ELSE IF ~cv.isValid THEN "invalid content"
            ELSE IF st.inputType = "link" /\ ~validateURL(content) THEN "invalid url"
            ELSE IF st.inputType = "wifi" /\ ~wv.isValid THEN "invalid wifi"
            ELSE "started"
    IN  /\ timers' = timers \ {t}
        /\ runs' = runs + 1
        /\ lastRun' = Some([version |-> t.version, inputType |-> st.inputType,
                            content |-> content, outcome |-> outcome,
                            contentValidation |->
                                IF content = <<>> THEN None ELSE Some(cv),
                            wifiValidation |->
                                IF outcome \in {"invalid wifi", "started"}
                                   /\ st.inputType = "wifi"
                                THEN Some(wv) ELSE None])
        /\ qrCodePNG' = IF outcome = "cleared" THEN None ELSE qrCodePNG
        /\ qrCodeSVG' = IF outcome = "cleared" THEN None ELSE qrCodeSVG
        /\ isGenerating' = IF outcome = "started" THEN TRUE ELSE isGenerating
        /\ calls' = IF outcome = "started" THEN calls + 1 ELSE calls
        /\ inflight' =
             IF outcome = "started"
             THEN inflight \cup {[id |-> calls + 1, content |-> content,
                                  options |-> st.options,
                                  \* what the content was made from
                                  inputType |-> st.inputType, wifi |-> st.wifi]}
             ELSE inflight
        /\ UNCHANGED <<inputType, link, text, config, options, version, consoleErrors>>
        /\ UNCHANGED utilVars
        /\ UNCHANGED scanVars

\* both library promises of the call c resolve
GenerationSucceeds(c) ==
    /\ inflight' = inflight \ {c}
    /\ qrCodePNG' = Some(PngOf(c))
    /\ qrCodeSVG' = Some(SvgOf(c))
    /\ isGenerating' = FALSE
    /\ UNCHANGED <<inputType, link, text, config, options, timers, version, calls,
                   runs, lastRun, consoleErrors>>
    /\ UNCHANGED utilVars
    /\ UNCHANGED scanVars

\* one of the library promises of the call c rejects
GenerationFails(c) ==
    /\ inflight' = inflight \ {c}
    /\ consoleErrors' = consoleErrors + 1
    /\ isGenerating' = FALSE
    /\ UNCHANGED <<inputType, link, text, config, options, qrCodePNG, qrCodeSVG,
                   timers, version, calls, runs, lastRun>>
    /\ UNCHANGED utilVars
    /\ UNCHANGED scanVars

-----------------------------------------------------------------------------
(* The QRReader component's camera scanning (components/QRReader.tsx).     *)
(* The scan mode stays "camera", so the video element exists while the     *)
(* component is mounted.                                                   *)

MaxStarts == 3       \* invocations of startScanning in one behaviour
MaxFrames == 3       \* animation frames requested in one behaviour

Devices == {"cam1", "cam2"}

CameraError == "cameraError"

\* the strings jsQR decodes from camera frames
ScanData == {<<"h","i">>, generateWiFiPayload(DefaultConfig)}

\* the component's first render, with the first camera selected
ScannerUnused ==
    /\ isScanning = FALSE /\ error = None
    /\ selectedDevice = "cam1" /\ startSeesScanning = FALSE
    /\ streamRef = None /\ animationRef = None /\ srcObject = None
    /\ liveStreams = {} /\ starting = {} /\ frames = {}
    /\ mounted = TRUE /\ stopped = FALSE
    /\ starts = 0 /\ frameCount = 0

\* cancelAnimationFrame(id) on the pending callbacks fr
CancelAnimationFrame(fr, ref) ==
    IF ref # None THEN {f \in fr : f.id # ref[1]} ELSE fr

\* the body of stopScanning, fr being the callbacks pending when it is called
StopScanningBody(fr) ==
    /\ isScanning' = FALSE
    /\ frames' = CancelAnimationFrame(fr, animationRef)
    /\ animationRef' = None
    /\ liveStreams' = IF streamRef # None THEN liveStreams \ {streamRef[1]}
                                         ELSE liveStreams
    /\ streamRef' = None
    /\ srcObject' = IF mounted THEN None ELSE srcObject
    /\ stopped' = TRUE

\* one call of scanFrame whose closure sees isScanning = sees; fr are the
\* callbacks pending when it is called, scanningNow the isScanning state it
\* leaves when it does not stop
ScanFrame(sees, fr, scanningNow) ==
    IF ~sees \/ ~mounted
    THEN /\ isScanning' = scanningNow
         /\ frames' = fr
         /\ UNCHANGED <<animationRef, liveStreams, streamRef, srcObject, stopped,
                        frameCount, data, result>>
    ELSE \/ /\ frameCount < MaxFrames
            /\ frameCount' = frameCount + 1
            /\ animationRef' = Some(frameCount + 1)
            /\ frames' = fr \cup {[id |-> frameCount + 1, sees |-> sees]}
            /\ isScanning' = scanningNow
            /\ UNCHANGED <<liveStreams, streamRef, srcObject, stopped, data, result>>
         \/ /\ srcObject # None /\ srcObject[1] \in liveStreams
            /\ \E d \in ScanData :
                  /\ data' = d
                  /\ result' = Some(parseQRData(d))
            /\ StopScanningBody(fr)
            /\ UNCHANGED frameCount

\* the start button, shown while isScanning is false: startScanning up to
\* its await of getUserMedia
StartScanning ==
    /\ mounted /\ ~isScanning
    /\ starts < MaxStarts
    /\ starts' = starts + 1
    /\ error' = None
    /\ result' = None
    /\ starting' = starting \cup {[id |-> starts + 1, at |-> "getUserMedia",
                                   sees |-> startSeesScanning]}
    /\ stopped' = FALSE
    /\ UNCHANGED <<isScanning, selectedDevice, startSeesScanning, streamRef,
                   animationRef, srcObject, liveStreams, frames, mounted, frameCount>>
    /\ UNCHANGED <<config, payload, validation, data, str, escaped>>
    /\ UNCHANGED genVars

\* getUserMedia resolves with a stream: startScanning up to its await of play
GetUserMediaResolves(inv) ==
    /\ inv.at = "getUserMedia"
    /\ liveStreams' = liveStreams \cup {inv.id}
    /\ streamRef' = Some(inv.id)
    /\ IF mounted
       THEN /\ srcObject' = Some(inv.id)
            /\ starting' = (starting \ {inv}) \cup {[inv EXCEPT !.at = "play"]}
       ELSE /\ srcObject' = srcObject
            /\ starting' = starting \ {inv}
    /\ UNCHANGED <<isScanning, error, selectedDevice, startSeesScanning,
                   animationRef, frames, mounted, stopped, starts, frameCount>>
    /\ UNCHANGED <<config>> /\ UNCHANGED utilVars /\ UNCHANGED genVars

\* getUserMedia or play rejects: the catch block
StartFails(inv) ==
    /\ error' = Some(CameraError)
    /\ starting' = starting \ {inv}
    /\ UNCHANGED <<isScanning, selectedDevice, startSeesScanning, streamRef,
                   animationRef, srcObject, liveStreams, frames, mounted, stopped,
                   starts, frameCount>>
    /\ UNCHANGED <<config>> /\ UNCHANGED utilVars /\ UNCHANGED genVars

\* play resolves: setIsScanning(true) and the first call of scanFrame
PlayResolves(inv) ==
    /\ inv.at = "play"
    /\ starting' = starting \ {inv}
    /\ ScanFrame(inv.sees, frames, TRUE)
    /\ UNCHANGED <<error, selectedDevice, startSeesScanning, mounted, starts>>
    /\ UNCHANGED <<config, payload, validation, str, escaped>>
    /\ UNCHANGED genVars

\* the browser runs a requested animation frame callback
AnimationFrame(f) ==
    /\ ScanFrame(f.sees, frames \ {f}, isScanning)
    /\ UNCHANGED <<error, selectedDevice, startSeesScanning, starting, mounted, starts>>
    /\ UNCHANGED <<config, payload, validation, str, escaped>>
    /\ UNCHANGED genVars

\* the stop button, shown while isScanning is true
StopScanning ==
    /\ mounted /\ isScanning
    /\ StopScanningBody(frames)
    /\ UNCHANGED <<error, selectedDevice, startSeesScanning, starting, mounted,
                   starts, frameCount>>
    /\ UNCHANGED <<config>> /\ UNCHANGED utilVars /\ UNCHANGED genVars

\* the unmount cleanup calls stopScanning; the refs to the video and the
\* canvas are detached
Unmount ==
    /\ mounted
    /\ mounted' = FALSE
    /\ StopScanningBody(frames)
    /\ UNCHANGED <<error, selectedDevice, startSeesScanning, starting,
                   starts, frameCount>>
    /\ UNCHANGED <<config>> /\ UNCHANGED utilVars /\ UNCHANGED genVars

\* the camera select: startScanning is memoized on selectedDevice, so the
\* new callback closes over the isScanning of this render
SelectDevice(d) ==
    /\ mounted /\ d # selectedDevice
    /\ selectedDevice' = d
    /\ startSeesScanning' = isScanning
    /\ UNCHANGED <<isScanning, error, streamRef, animationRef, srcObject, liveStreams,
                   starting, frames, mounted, stopped, starts, frameCount>>
    /\ UNCHANGED <<config>> /\ UNCHANGED utilVars /\ UNCHANGED genVars

-----------------------------------------------------------------------------
(* Specifications.                                                         *)

GenerateWiFiPayload ==
    /\ payload = None
    /\ payload' = Some(generateWiFiPayload(config))
    /\ UNCHANGED <<config, validation, data, result, str, escaped>>
    /\ UNCHANGED genVars
    /\ UNCHANGED scanVars

ValidateWiFiConfig ==
    /\ validation = None
    /\ validation' = Some(validateWiFiConfig(config))
    /\ UNCHANGED <<config, payload, data, result, str, escaped>>
    /\ UNCHANGED genVars
    /\ UNCHANGED scanVars

\* the reader decodes a QR image of the generated payload and classifies it
ScanPayload ==
    /\ payload # None
    /\ result = None
    /\ data' = payload[1]
    /\ result' = Some(parseQRData(payload[1]))
    /\ UNCHANGED <<config, payload, validation, str, escaped>>
    /\ UNCHANGED genVars
    /\ UNCHANGED scanVars

ParseQRData ==
    /\ result = None
    /\ result' = Some(parseQRData(data))
    /\ UNCHANGED <<config, payload, validation, data, str, escaped>>
    /\ UNCHANGED genVars
    /\ UNCHANGED scanVars

EscapeWiFiString ==
    /\ escaped = None
    /\ escaped' = Some(escapeWiFiString(str))
    /\ UNCHANGED <<config, payload, validation, data, result, str>>
    /\ UNCHANGED genVars
    /\ UNCHANGED scanVars

\* encode, validate and read back a Wi-Fi configuration
Init ==
    /\ GeneratorUnused
    /\ ScannerUnused
    /\ config \in CodecConfigs
    /\ payload = None /\ validation = None
    /\ data = <<>> /\ result = None
    /\ str = <<>> /\ escaped = None

Next == GenerateWiFiPayload \/ ValidateWiFiConfig \/ ScanPayload

Spec == Init /\ [][Next]_vars

\* the escaping transform on its own
InitEscape ==
    /\ GeneratorUnused
    /\ ScannerUnused
    /\ str \in EscapeInputs
    /\ escaped = None
    /\ config = DefaultConfig /\ payload = None /\ validation = None
    /\ data = <<>> /\ result = None

NextEscape == EscapeWiFiString

SpecEscape == InitEscape /\ [][NextEscape]_vars

\* the validator on configurations around its length limits
InitValidate ==
    /\ GeneratorUnused
    /\ ScannerUnused
    /\ config \in ValidateConfigs
    /\ payload = None /\ validation = None
    /\ data = <<>> /\ result = None
    /\ str = <<>> /\ escaped = None

NextValidate == ValidateWiFiConfig

SpecValidate == InitValidate /\ [][NextValidate]_vars

\* the classifier on arbitrary decoded strings
InitClassify ==
    /\ GeneratorUnused
    /\ ScannerUnused
    /\ data \in RawInputs
    /\ result = None
    /\ config = DefaultConfig /\ payload = None /\ validation = None
    /\ str = <<>> /\ escaped = None

NextClassify == ParseQRData

SpecClassify == InitClassify /\ [][NextClassify]_vars

\* the generator component from mount on
InitGenerator ==
    /\ inputType = "link" /\ link = <<>> /\ text = <<>> /\ options = "M"
    /\ config = DefaultConfig
    /\ qrCodePNG = None /\ qrCodeSVG = None /\ isGenerating = FALSE
    /\ timers = {[version |-> 0,
                  inputs |-> [inputType |-> "link", link |-> <<>>, text |-> <<>>,
                              wifi |-> DefaultConfig, options |-> "M"]]}
    /\ inflight = {}
    /\ version = 0 /\ calls = 0 /\ runs = 0 /\ lastRun = None /\ consoleErrors = 0
    /\ ScannerUnused
    /\ payload = None /\ validation = None
    /\ data = <<>> /\ result = None
    /\ str = <<>> /\ escaped = None

NextGenerator ==
    \/ \E t \in InputTypes : UpdateInputType(t)
    \/ \E l \in GenLinks : UpdateLink(l)
    \/ \E x \in GenTexts : UpdateText(x)
    \/ \E c \in GenWifis : UpdateWiFi(c)
    \/ \E o \in GenOptions : UpdateOptions(o)
    \/ \E t \in timers : GenerateQRCode(t)
    \/ \E c \in inflight : GenerationSucceeds(c)
    \/ \E c \in inflight : GenerationFails(c)

SpecGenerator == InitGenerator /\ [][NextGenerator]_vars

\* what a run of generateQRCode does to the timers: the steps of NextGenerator
\* that satisfy it are the GenerateQRCode steps, and it is enabled exactly
\* when a timeout is pending
TimeoutFires == \E t \in timers : timers' = timers \ {t} /\ runs' = runs + 1

\* a timeout that stays pending fires
SpecGeneratorFair == SpecGenerator /\ WF_<<timers, runs>>(TimeoutFires)

\* the reader component from mount on
InitScanner ==
    /\ GeneratorUnused
    /\ ScannerUnused
    /\ config = DefaultConfig
    /\ payload = None /\ validation = None
    /\ data = <<>> /\ result = None
    /\ str = <<>> /\ escaped = None

NextScanner ==
    \/ StartScanning
    \/ \E inv \in starting : GetUserMediaResolves(inv)
    \/ \E inv \in starting : StartFails(inv)
    \/ \E inv \in starting : PlayResolves(inv)
    \/ \E f \in frames : AnimationFrame(f)
    \/ StopScanning
    \/ Unmount
    \/ \E d \in Devices : SelectDevice(d)

SpecScanner == InitScanner /\ [][NextScanner]_vars

-----------------------------------------------------------------------------
(* Properties of the Wi-Fi payload codec.                                  *)

\* each escaped character preceded by one backslash, the others copied
RECURSIVE CharwiseEscape(_)
CharwiseEscape(s) ==
    IF s = <<>> THEN <<>>
    ELSE (IF Head(s) \in EscapedChars THEN <<BS, Head(s)>> ELSE <<Head(s)>>)
         \o CharwiseEscape(Tail(s))

HasEscapedChar(s) == \E i \in 1..Len(s) : s[i] \in EscapedChars

\* WIFI:T:WPA;S:a\;b;P:p\\q;H:true;;
ExamplePayload ==
    <<"W","I","F","I",":","T",":","W","P","A",";",
      "S",":","a",BS,";","b",";",
      "P",":","p",BS,BS,"q",";",
      "H",":","t","r","u","e",";",";">>

\* C1: the payload is WIFI:T:<security>;S:<escaped ssid>;P:<escaped password>;
\* H:<true|false>;; with the fields in this order and the double semicolon at
\* the end; the configuration a;b / p\q / WPA / hidden gives
\* WIFI:T:WPA;S:a\;b;P:p\\q;H:true;;
C1_PayloadFormat ==
    payload # None =>
        /\ payload[1] =
             <<"W","I","F","I",":","T",":">> \o config.security
               \o <<";","S",":">> \o CharwiseEscape(config.ssid)
               \o <<";","P",":">> \o CharwiseEscape(config.password)
               \o <<";","H",":">> \o (IF config.hidden THEN TrueText ELSE FalseText)
               \o <<";",";">>
        /\ config = ExampleConfig => payload[1] = ExamplePayload

C1_Witness == config = ExampleConfig /\ payload = Some(ExamplePayload)

\* C2: escapeWiFiString puts exactly one backslash in front of every
\* backslash, comma, semicolon, double quote and colon of its argument and
\* leaves every other character in place; inserted backslashes are not
\* escaped again
C2_EscapeCharwise ==
    escaped # None => escaped[1] = CharwiseEscape(str)

C2_Witness ==
    /\ str = <<"a", BS, ";", ",">>
    /\ escaped = Some(<<"a", BS, BS, BS, ";", BS, ",">>)

ValidatedOk == validation # None /\ validation[1].isValid

\* C3: for a configuration the validator accepts, classifying the generated
\* payload gives type wifi with the original ssid, security and hidden flag
C3_RoundTrip ==
    (ValidatedOk /\ result # None) =>
        /\ result[1].type = "wifi"
        /\ result[1].parsed.ssid = config.ssid
        /\ result[1].parsed.security = config.security
        /\ result[1].parsed.hidden = config.hidden

\* C4: for an accepted configuration whose password has none of the five
\* escaped characters, the password read back from the payload is the original
C4_PasswordRoundTrip ==
    (ValidatedOk /\ result # None /\ ~HasEscapedChar(config.password)) =>
        /\ result[1].type = "wifi"
        /\ result[1].parsed.password = config.password

\* C5: for an accepted configuration whose password has one of the five
\* escaped characters, the password read back is the escaped password, which
\* differs from the original
C5_PasswordStillEscaped ==
    (ValidatedOk /\ result # None /\ HasEscapedChar(config.password)) =>
        /\ result[1].type = "wifi"
        /\ result[1].parsed.password = escapeWiFiString(config.password)
        /\ result[1].parsed.password # config.password

\* the four checks of the validator, as the conditions of the claim
FailedChecks(c) ==
    <<\A i \in 1..Len(c.ssid) : c.ssid[i] \in WhiteSpace,
      Len(c.ssid) > 32,
      c.security # nopass /\ Len(c.password) = 0,
      Len(c.password) > 63>>

CheckMessages ==
    <<ErrSsidRequired, ErrSsidTooLong, ErrPasswordRequired, ErrPasswordTooLong>>

ExpectedErrors(c) ==
    LET failed(i) == FailedChecks(c)[i]
        idx == SelectSeq(<<1, 2, 3, 4>>, failed)
    IN  [k \in 1..Len(idx) |-> CheckMessages[idx[k]]]

\* C6: the errors are the messages of exactly the failing checks, each
\* decided on its own, in the order ssid required, ssid longer than 32,
\* password required (security not open and password empty), password longer
\* than 63; isValid holds exactly when there is no error
C6_ValidateErrors ==
    validation # None =>
        /\ validation[1].errors = ExpectedErrors(config)
        /\ validation[1].isValid = (validation[1].errors = <<>>)

C6_Witness ==
    /\ validation # None
    /\ config.ssid = <<>> /\ config.password = <<>> /\ config.security = WPA
    /\ validation[1].errors = <<ErrSsidRequired, ErrPasswordRequired>>
    /\ ~validation[1].isValid

OpenExampleConfig ==
    [ssid |-> Rep("x", 33), password |-> <<"o", "k">>,
     security |-> nopass, hidden |-> FALSE]

\* C7: with open security the password-required message is never reported;
\* a 33-character ssid with password ok and open security is invalid with the
\* ssid length message as its only error
C7_OpenNeedsNoPassword ==
    validation # None =>
        /\ config.security = nopass =>
             \A i \in 1..Len(validation[1].errors) :
                 validation[1].errors[i] # ErrPasswordRequired
        /\ config = OpenExampleConfig =>
             /\ ~validation[1].isValid
             /\ validation[1].errors = <<ErrSsidTooLong>>

C7_Witness ==
    /\ config = OpenExampleConfig
    /\ validation = Some([isValid |-> FALSE, errors |-> <<ErrSsidTooLong>>])

-----------------------------------------------------------------------------
(* Properties of the payload classifier.                                   *)

Categories == <<"url", "wifi", "email", "phone", "sms", "geo", "vcard", "event">>

\* the tests of the classifier in the order of the specification
Tests(d) ==
    <<UrlTest(d), WifiTest(d), EmailTest(d), PhoneTest(d),
      SmsTest(d), GeoTest(d), VCardTest(d), EventTest(d)>>

\* the same tests with the email test reduced to its mailto: prefix
PrefixTests(d) ==
    <<UrlTest(d), WifiTest(d), MailtoTest(d), PhoneTest(d),
      SmsTest(d), GeoTest(d), VCardTest(d), EventTest(d)>>

\* C8: the type is the category of the first test that matches in the order
\* url, wifi, email, phone, sms, geo, vcard, event, and text when none matches
C8_FirstMatchWins ==
    result # None =>
        LET t == Tests(data) IN
        /\ \A i \in 1..8 :
              (t[i] /\ \A j \in 1..(i - 1) : ~t[j]) => result[1].type = Categories[i]
        /\ (\A i \in 1..8 : ~t[i]) => result[1].type = "text"

C8_Witness ==
    /\ result # None
    /\ UrlTest(data) /\ EmailTest(data)
    /\ result[1].type = "url"

\* C9 as stated: no input satisfies the tests of two categories
C9_MutuallyExclusive ==
    result # None => Cardinality({i \in 1..8 : Tests(data)[i]}) <= 1

\* C9 amended: the tests are mutually exclusive except for the full-match
\* email shape: no input satisfies two of url, wifi, mailto: prefix, phone,
\* sms, geo, vcard, event, so only an input of the email shape can have a
\* result that depends on the order of the tests
C9_ExclusiveExceptEmailShape ==
    result # None => Cardinality({i \in 1..8 : PrefixTests(data)[i]}) <= 1

C9_Witness ==
    /\ result # None
    /\ EmailShape(data) /\ SmsTest(data)
    /\ Cardinality({i \in 1..8 : PrefixTests(data)[i]}) = 1
    /\ result[1].type = "email"

WifiPrefixNoMatch(d) ==
    StartsWith(d, <<"W","I","F","I",":">>) /\ wifiMatch(d) = None

\* C10 as stated: an input with the WIFI: prefix that the capture pattern
\* does not match is classified as plain text
C10_FallsToText ==
    (result # None /\ WifiPrefixNoMatch(data)) => result[1].type = "text"

\* C10 amended: such an input falls through to the later tests: it is
\* classified email when it has the email shape and plain text otherwise
C10_FallsToEmailOrText ==
    (result # None /\ WifiPrefixNoMatch(data)) =>
        result[1].type = (IF EmailShape(data) THEN "email" ELSE "text")

C10_Witness ==
    /\ result # None
    /\ WifiPrefixNoMatch(data)
    /\ ~EmailShape(data)
    /\ result[1].type = "text"

NoSemi(t) == \A i \in 1..Len(t) : t[i] # ";"

\* WIFI:T:nopass;S:MyNet;P:;H:false;;
OpenNetPayload ==
    <<"W","I","F","I",":","T",":","n","o","p","a","s","s",";",
      "S",":","M","y","N","e","t",";","P",":",";",
      "H",":","f","a","l","s","e",";",";">>

OpenNetFields ==
    [security |-> nopass, ssid |-> <<"M","y","N","e","t">>,
     password |-> <<>>, hidden |-> FALSE]

\* C11: a wifi result carries the four capture groups of the leftmost match
\* of the pattern: data holds WIFI:T:g1;S:g2;P:g3;H:g4; with no semicolon in
\* a group, security is g1 or nopass when g1 is empty, ssid is g2 and password
\* is g3 as captured, hidden is true exactly when g4 is the text true;
\* WIFI:T:nopass;S:MyNet;P:;H:false;; gives MyNet / nopass / empty / false
C11_ParsedFieldsAreGroups ==
    (result # None /\ result[1].type = "wifi") =>
        LET p == result[1].parsed IN
        /\ \E i \in 1..Len(data) : \E g1 \in {p.security, <<>>} : \E n4 \in 0..Len(data) :
              LET start4 == i + 7 + Len(g1) + 3 + Len(p.ssid) + 3 + Len(p.password) + 3
                  g4 == SubSeq(data, start4, start4 + n4 - 1)
              IN  /\ start4 + n4 - 1 <= Len(data)
                  /\ LitAt(data, i,
                           <<"W","I","F","I",":","T",":">> \o g1
                             \o <<";","S",":">> \o p.ssid
                             \o <<";","P",":">> \o p.password
                             \o <<";","H",":">> \o g4 \o <<";">>)
                  /\ NoSemi(g1) /\ NoSemi(p.ssid) /\ NoSemi(p.password) /\ NoSemi(g4)
                  /\ p.security = (IF g1 = <<>> THEN nopass ELSE g1)
                  /\ p.hidden = (g4 = TrueText)
                  /\ \A k \in 1..(i - 1) : WifiMatchAt(data, k) = None
        /\ data = OpenNetPayload => p = OpenNetFields

C11_Witness ==
    /\ data = OpenNetPayload
    /\ result = Some([data |-> OpenNetPayload, type |-> "wifi", parsed |-> OpenNetFields])

ResultTypes ==
    {"url", "wifi", "email", "phone", "sms", "geo", "vcard", "event", "text"}

\* C12: every input, the empty string included, gets a result whose data is
\* the input, whose type is one of url, wifi, email, phone, sms, geo, vcard,
\* event, text (never unknown), and text when no test matches
C12_Total ==
    result # None =>
        /\ result[1].data = data
        /\ result[1].type \in ResultTypes
        /\ (\A i \in 1..8 : ~Tests(data)[i]) => result[1].type = "text"

C12_Witness ==
    /\ data = <<>>
    /\ result = Some([data |-> <<>>, type |-> "text"])

\* C13: the result has a parsed member exactly when its type is wifi; every
\* other result has only data and type
C13_ParsedIffWifi ==
    result # None =>
        DOMAIN result[1] =
            (IF result[1].type = "wifi" THEN {"data", "type", "parsed"}
             ELSE {"data", "type"})

C13_Witness ==
    /\ result # None
    /\ result[1].type = "wifi"
    /\ DOMAIN result[1] = {"data", "type", "parsed"}
    /\ result[1].parsed.hidden

\* C15 as stated: an input with the mailto: prefix or of the email shape is
\* classified email
C15_EmailAsStated ==
    (result # None /\ EmailTest(data)) => result[1].type = "email"

\* C15 amended: such an input is classified email unless the URL test or the
\* Wi-Fi test, which come first, match it; then it is url or wifi
C15_EmailUnlessUrlOrWifi ==
    (result # None /\ EmailTest(data)) =>
        result[1].type =
            (IF UrlTest(data) THEN "url" ELSE IF WifiTest(data) THEN "wifi" ELSE "email")

C15_Witness ==
    /\ result # None
    /\ StartsWith(data, <<"t","e","l",":">>) /\ EmailShape(data)
    /\ result[1].type = "email"

TelPrefix(d) == StartsWith(d, <<"t","e","l",":">>)

\* the phone class read as a set of characters: + digits - ( ) and spaces
\* (any whitespace)
AllPhoneClass(d) ==
    Len(d) > 0 /\ \A i \in 1..Len(d) :
        d[i] \in Digits \cup {"+", "-", "(", ")"} \cup WhiteSpace

\* an optional leading + and then one or more of digits - ( ) whitespace
PhoneForm(d) ==
    LET body == IF d # <<>> /\ d[1] = "+" THEN Tail(d) ELSE d
    IN  body # <<>> /\
        \A i \in 1..Len(body) : body[i] \in Digits \cup {"-", "(", ")"} \cup WhiteSpace

\* C16 as stated: tel: prefix or only phone-class characters gives phone, and
\* nothing else is phone
C16_PhoneAsStated ==
    result # None =>
        /\ (TelPrefix(data) \/ AllPhoneClass(data)) => result[1].type = "phone"
        /\ (~TelPrefix(data) /\ ~AllPhoneClass(data)) => result[1].type # "phone"

\* C16 amended: the type is phone exactly when the input starts with tel:
\* and is not of the email shape, or is an optional leading + followed by one
\* or more of digits, -, (, ) and whitespace
C16_PhoneExactly ==
    result # None =>
        ((result[1].type = "phone") <=>
            ((TelPrefix(data) /\ ~EmailShape(data)) \/ PhoneForm(data)))

C16_Witness ==
    /\ data = <<"+", "(", "2", ")", "-", "3">>
    /\ result # None /\ result[1].type = "phone"

SchemeCategory(d) ==
    IF StartsWith(d, <<"s","m","s",":">>) \/ StartsWith(d, <<"s","m","s","t","o",":">>)
    THEN "sms"
    ELSE IF StartsWith(d, <<"g","e","o",":">>) THEN "geo"
    ELSE IF StartsWith(d, <<"B","E","G","I","N",":","V","C","A","R","D">>) THEN "vcard"
    ELSE IF StartsWith(d, <<"B","E","G","I","N",":","V","E","V","E","N","T">>) THEN "event"
    ELSE "none"

\* C17 as stated: the prefixes sms: smsto: geo: BEGIN:VCARD BEGIN:VEVENT
\* decide the category whatever follows
C17_PrefixDecides ==
    (result # None /\ SchemeCategory(data) # "none") =>
        result[1].type = SchemeCategory(data)

\* C17 amended: they decide the category unless the whole input is of the
\* email shape, which is classified email
C17_PrefixDecidesUnlessEmailShape ==
    (result # None /\ SchemeCategory(data) # "none") =>
        result[1].type = (IF EmailShape(data) THEN "email" ELSE SchemeCategory(data))

\* BEGIN:VCARD\nFN:Jane
C17_Witness ==
    /\ data = <<"B","E","G","I","N",":","V","C","A","R","D","\n","F","N",":","J","a","n","e">>
    /\ result # None /\ result[1].type = "vcard"


-----------------------------------------------------------------------------
(* Properties of the generator component.                                  *)

\* the errors the content validator is to report for the content c
ExpectedContentErrors(c) ==
    (IF \A i \in 1..Len(c) : c[i] \in WhiteSpace THEN <<ErrContentEmpty>> ELSE <<>>)
    \o (IF Len(c) > 2000 THEN <<ErrContentTooLong>> ELSE <<>>)

RunOutcomes == {"cleared", "invalid content", "invalid url", "invalid wifi", "started"}

Structured(v) == DOMAIN v = {"isValid", "errors"} /\ v.isValid = (v.errors = <<>>)

\* C18: every run of generateQRCode returns normally; the content validator
\* gives a structured result with "Content cannot be empty" for content blank
\* after trimming and the maximum-length message for more than 2000
\* characters, the Wi-Fi validator gives a structured result, and the run
\* starts a generation exactly when every validator it consulted accepted
C18_ValidationAsValues ==
    lastRun # None =>
        LET r == lastRun[1] IN
        /\ r.outcome \in RunOutcomes
        /\ r.content # <<>> =>
             /\ r.contentValidation # None
             /\ Structured(r.contentValidation[1])
             /\ r.contentValidation[1].errors = ExpectedContentErrors(r.content)
        /\ r.wifiValidation # None => Structured(r.wifiValidation[1])
        /\ (r.outcome = "started") <=>
             /\ r.content # <<>>
             /\ ExpectedContentErrors(r.content) = <<>>
             /\ r.inputType = "link" => validateURL(r.content)
             /\ r.inputType = "wifi" =>
                  (r.wifiValidation # None /\ r.wifiValidation[1].isValid)
        /\ r.outcome = "invalid wifi" =>
             (r.wifiValidation # None /\ ~r.wifiValidation[1].isValid)

C18_Witness ==
    /\ lastRun # None
    /\ lastRun[1].content = <<" ">>
    /\ lastRun[1].contentValidation =
         Some([isValid |-> FALSE, errors |-> <<ErrContentEmpty>>])
    /\ lastRun[1].outcome = "invalid content"
    /\ inflight = {}

\* a step in which a pending timeout fired
TimerFired == timers' # timers /\ version' = version

\* the latest input has had its run of generateQRCode
LatestInputRan == lastRun # None /\ lastRun[1].version = version

\* C19: every input change replaces the pending timeout, so at most one is
\* pending; generateQRCode only ever runs for the latest input, never for a
\* superseded one, and at most once for it; and once the inputs stop changing
\* the pending timeout runs it for the final input
C19_Debounce ==
    /\ [](/\ Cardinality(timers) <= 1
          /\ runs <= version + 1
          /\ (timers = {}) <=> LatestInputRan)
    /\ [][TimerFired =>
            /\ lastRun'[1].version = version
            /\ (lastRun = None \/ lastRun[1].version < version)]_vars
    /\ (timers # {}) ~> (timers = {})

\* a burst of the mount and three changes, then one run, for the last input
C19_Witness ==
    /\ version = 3 /\ runs = 1
    /\ lastRun # None /\ lastRun[1].version = 3
    /\ timers = {}

\* C20: the stored PNG and SVG are replaced only together, by the pair made
\* from one content and one option set; a failed generation changes neither
\* and shows the user a message
C20_FailureSurfaced ==
    [][/\ (qrCodePNG' = None) = (qrCodeSVG' = None)
       /\ qrCodePNG' # None =>
            /\ qrCodePNG'[1].content = qrCodeSVG'[1].content
            /\ qrCodePNG'[1].options = qrCodeSVG'[1].options
       /\ consoleErrors' # consoleErrors =>
            /\ qrCodePNG' = qrCodePNG /\ qrCodeSVG' = qrCodeSVG
            /\ Preview' = "error message"]_vars

-----------------------------------------------------------------------------
(* Properties of the reader's camera scanning.                             *)

\* C21: while scanning is on after playback has started, a scanFrame callback
\* is pending on the next animation frame; and a step that decodes a frame
\* stores the classified result, leaves no callback pending and sets
\* isScanning to false
C21_ScanLoopPolls ==
    [][/\ (isScanning' /\ mounted') => frames' # {}
       /\ (result' # None /\ result' # result) =>
            /\ result' = Some(parseQRData(data'))
            /\ frames' = {}
            /\ ~isScanning']_vars

-----------------------------------------------------------------------------
(* Properties of the generator's output state.                             *)

\* the generator has nothing left to do: no timeout pending, no call in flight
GeneratorQuiet == timers = {} /\ inflight = {}

\* C22: when no timeout is pending and no generation call is in flight, the
\* stored PNG and SVG are both absent or both made from the current content
\* and the current options
C22_OutputIsCurrent ==
    GeneratorQuiet =>
        \/ qrCodePNG = None /\ qrCodeSVG = None
        \/ /\ qrCodePNG # None /\ qrCodeSVG # None
           /\ qrCodePNG[1].content = getCurrentContent(CurrentInputs)
           /\ qrCodeSVG[1].content = getCurrentContent(CurrentInputs)
           /\ qrCodePNG[1].options = options
           /\ qrCodeSVG[1].options = options

-----------------------------------------------------------------------------
(* Properties of the reader's camera streams.                              *)

\* C23: once stopScanning has run, no start was requested after it and every
\* invocation of startScanning has finished, no camera stream has live tracks
C23_StreamsReleased ==
    (stopped /\ starting = {}) => liveStreams = {}

-----------------------------------------------------------------------------
(* Properties of the generator's calls of the QR image library.            *)

\* C24: every call of the QR image library has content that is not blank
\* and at most 2000 characters long, that validateURL accepts when it was
\* made from the link field, and that is the payload of a WiFiConfig without
\* validation errors when it was made from the Wi-Fi form
C24_LibraryGetsValidContent ==
    \A c \in inflight :
        /\ \E i \in 1..Len(c.content) : c.content[i] \notin WhiteSpace
        /\ Len(c.content) <= 2000
        /\ c.inputType = "link" => validateURL(c.content)
        /\ c.inputType = "wifi" =>
             /\ ExpectedErrors(c.wifi) = <<>>
             /\ c.content = generateWiFiPayload(c.wifi)

\* a call made from the Wi-Fi form is in flight
C24_Witness ==
    /\ lastRun # None /\ lastRun[1].outcome = "started"
    /\ \E c \in inflight :
          /\ c.inputType = "wifi"
          /\ c.wifi.ssid = <<"n">>
          /\ c.content = generateWiFiPayload(c.wifi)


\* C25: isGenerating is true exactly while a generation call is in flight
C25_GeneratingIffInFlight ==
    isGenerating <=> inflight # {}

-----------------------------------------------------------------------------
(* Injectivity of the Wi-Fi payload.                                       *)

\* the field of p that starts at position i: it runs to the first semicolon
\* that no backslash escapes, and a backslash stands for the character after it
RECURSIVE ReadField(_, _, _)
ReadField(p, i, acc) ==
    IF i > Len(p) THEN [value |-> acc, next |-> i, closed |-> FALSE]
    ELSE IF p[i] = ";" THEN [value |-> acc, next |-> i + 1, closed |-> TRUE]
    ELSE IF p[i] = BS /\ i < Len(p) THEN ReadField(p, i + 2, Append(acc, p[i + 1]))
    ELSE ReadField(p, i + 1, Append(acc, p[i]))

\* the configuration read from the payload p by splitting it at its unescaped
\* semicolons: WIFI:T:<security>;S:<ssid>;P:<password>;H:<hidden>;;
ReadBack(p) ==
    LET t == ReadField(p, 8, <<>>)
        n == ReadField(p, t.next + 2, <<>>)
        w == ReadField(p, n.next + 2, <<>>)
        h == ReadField(p, w.next + 2, <<>>)
    IN  [ssid |-> n.value, password |-> w.value, security |-> t.value,
         hidden |-> (h.value = TrueText),
         wellFormed |-> /\ t.closed /\ n.closed /\ w.closed /\ h.closed
                        /\ h.next = Len(p)
                        /\ p[Len(p)] = ";"]

\* C26: the unescaped semicolons of a payload are its field delimiters, and
\* splitting the payload at them gives back the ssid, password, security and
\* hidden it was made from; so two configurations that differ in one of them
\* never have the same payload
C26_PayloadInjective ==
    payload # None =>
        LET r == ReadBack(payload[1]) IN
        /\ r.wellFormed
        /\ r.ssid = config.ssid
        /\ r.password = config.password
        /\ r.security = config.security
        /\ r.hidden = config.hidden

C26_Witness ==
    /\ payload # None
    /\ config.ssid = <<";">>
    /\ config.password = <<BS, ";">>
    /\ ReadBack(payload[1]).ssid = <<";">>

====
